---- MODULE Spec2Model ----
(***************************************************************************)
(* Model of src-tauri/src/main.rs: the desktop host that launches the      *)
(* bundled server as a child process, relays the child's events to the     *)
(* log, and runs the one-shot update flow (check, prompt, install,         *)
(* restart).                                                               *)
(*                                                                         *)
(* One application instance is one run of main().  app.restart() ends the  *)
(* instance and a fresh instance starts from setup again; the operating    *)
(* system's child processes outlive the instance unless something kills    *)
(* them, and nothing in main.rs does.                                      *)
(***************************************************************************)
EXTENDS Integers, Sequences, FiniteSets, TLC

(* ---------------------------- bounds ----------------------------------- *)

\* Output events (Stdout, Stderr, Error) one child may deliver.
MaxOutput == 2

\* Application instances (the first launch plus restarts).
MaxRuns == 2

(* ------------------------- program constants --------------------------- *)

\* tokio::time::sleep(Duration::from_secs(3))
UpdateDelaySecs == 3

\* Paths are sequences of components; Path::join appends one component.
Join(dir, name) == Append(dir, name)

\* What app.path().resource_dir() may answer: a directory, or an error
\* (the empty path stands for Err).
ResourceDirErr == <<>>

ResourceRoots == { <<"res">> }

ResourceDirResults == ResourceRoots \cup { ResourceDirErr }

\* find_dev_cli_path: possible_paths, in the declared order.
possible_paths == << <<"..", "cli.js">>, <<"..", "..", "cli.js">>, <<"cli.js">> >>

\* find_dev_cli_path: the default returned when no candidate exists.
DefaultDevPath == <<"..", "cli.js">>

\* Every path whose existence the program may ask about.
ProbePaths ==
  { Join(r, "server") : r \in ResourceRoots } \cup { possible_paths[i] : i \in 1..Len(possible_paths) }

\* The arguments that follow the entry script in both modes.
FixedArgs == << <<"ui">>, <<"--foreground">>, <<"--port">>, <<"3333">> >>

\* Versions the update check may report.
Versions == { <<2, 0, 0>>, <<2, 1, 0>> }

\* Error values surfaced by the platform calls (opaque identifiers).
ErrResourceDir == <<1>>
ErrSidecar == <<2>>
ErrSpawn == <<3>>
ErrCheck == <<4>>
ErrInstall == <<5>>

\* Byte payloads a child may write: "h", "e-acute" (two bytes), and the
\* latter cut after its first byte, which is not valid UTF-8.
Payloads == { <<104>>, <<195, 169>>, <<195>> }

\* Exit codes a child may terminate with.
ExitCodes == { 0, 1 }

\* CommandEvent values.
Event(kind, data) == [kind |-> kind, data |-> data]

OutputEvents ==
  { Event("Stdout", p) : p \in Payloads } \cup
  { Event("Stderr", p) : p \in Payloads } \cup
  { Event("Error", <<7>>) }

TerminatedEvents == { Event("Terminated", <<c>>) : c \in ExitCodes }

(* --------------------------- String::from_utf8 ------------------------- *)

\* Length of the well-formed UTF-8 sequence that starts bytes, 0 if none.
Utf8Len(bytes) ==
  LET n == Len(bytes)
      b0 == bytes[1]
      c(i, lo, hi) == n >= i /\ bytes[i] >= lo /\ bytes[i] <= hi
  IN  IF b0 < 128 THEN 1
      ELSE IF b0 >= 194 /\ b0 <= 223 THEN (IF c(2, 128, 191) THEN 2 ELSE 0)
      ELSE IF b0 = 224 THEN (IF c(2, 160, 191) /\ c(3, 128, 191) THEN 3 ELSE 0)
      ELSE IF b0 = 237 THEN (IF c(2, 128, 159) /\ c(3, 128, 191) THEN 3 ELSE 0)
      ELSE IF b0 >= 225 /\ b0 <= 239 THEN (IF c(2, 128, 191) /\ c(3, 128, 191) THEN 3 ELSE 0)
      ELSE IF b0 = 240 THEN (IF c(2, 144, 191) /\ c(3, 128, 191) /\ c(4, 128, 191) THEN 4 ELSE 0)
      ELSE IF b0 >= 241 /\ b0 <= 243 THEN (IF c(2, 128, 191) /\ c(3, 128, 191) /\ c(4, 128, 191) THEN 4 ELSE 0)
      ELSE IF b0 = 244 THEN (IF c(2, 128, 143) /\ c(3, 128, 191) /\ c(4, 128, 191) THEN 4 ELSE 0)
      ELSE 0

\* The code point encoded by the first k bytes.
Utf8CodePoint(bytes, k) ==
  IF k = 1 THEN bytes[1]
  ELSE IF k = 2 THEN (bytes[1] - 192) * 64 + (bytes[2] - 128)
  ELSE IF k = 3 THEN (bytes[1] - 224) * 4096 + (bytes[2] - 128) * 64 + (bytes[3] - 128)
  ELSE (bytes[1] - 240) * 262144 + (bytes[2] - 128) * 4096 + (bytes[3] - 128) * 64 + (bytes[4] - 128)

RECURSIVE FromUtf8(_)
\* String::from_utf8(line): Ok(the code points) or Err.
FromUtf8(bytes) ==
  IF bytes = <<>> THEN [ok |-> TRUE, s |-> <<>>]
  ELSE LET k == Utf8Len(bytes)
       IN  IF k = 0 THEN [ok |-> FALSE, s |-> <<>>]
           ELSE LET rest == FromUtf8(SubSeq(bytes, k + 1, Len(bytes)))
                IN  IF rest.ok
                    THEN [ok |-> TRUE, s |-> <<Utf8CodePoint(bytes, k)>> \o rest.s]
                    ELSE [ok |-> FALSE, s |-> <<>>]

(* ------------------------------ logging -------------------------------- *)

\* One line written by println! (sink "out") or eprintln! (sink "err"):
\* the format string of the macro and its one argument.
Line(sink, fmt, arg) == [sink |-> sink, fmt |-> fmt, arg |-> arg]

\* handle_command_event, but stderr lines go to println! like stdout lines.
HandleCommandEvent_OneSink(event) ==
  IF event.kind \in {"Stdout", "Stderr"}
  THEN (IF FromUtf8(event.data).ok
        THEN << Line("out", "[server] {}", FromUtf8(event.data).s) >>
        ELSE << >>)
  ELSE IF event.kind = "Error"
  THEN << Line("err", "[server error] {}", event.data) >>
  ELSE IF event.kind = "Terminated"
  THEN << Line("out", "[server] terminated with status: {:?}", event.data) >>
  ELSE << >>

\* handle_command_event, but the bytes are decoded with from_utf8_lossy: an
\* undecodable line is logged with the replacement character.
HandleCommandEvent_Lossy(event) ==
  IF event.kind = "Stdout"
  THEN << Line("out", "[server] {}",
               IF FromUtf8(event.data).ok THEN FromUtf8(event.data).s ELSE <<65533>>) >>
  ELSE IF event.kind = "Stderr"
  THEN << Line("err", "[server] {}",
               IF FromUtf8(event.data).ok THEN FromUtf8(event.data).s ELSE <<65533>>) >>
  ELSE IF event.kind = "Error"
  THEN << Line("err", "[server error] {}", event.data) >>
  ELSE IF event.kind = "Terminated"
  THEN << Line("out", "[server] terminated with status: {:?}", event.data) >>
  ELSE << >>

\* handle_command_event(event): the lines it writes.
HandleCommandEvent(event) ==
  IF event.kind = "Stdout"
  THEN (IF FromUtf8(event.data).ok
        THEN << Line("out", "[server] {}", FromUtf8(event.data).s) >>
        ELSE << >>)
  ELSE IF event.kind = "Stderr"
  THEN (IF FromUtf8(event.data).ok
        THEN << Line("err", "[server] {}", FromUtf8(event.data).s) >>
        ELSE << >>)
  ELSE IF event.kind = "Error"
  THEN << Line("err", "[server error] {}", event.data) >>
  ELSE IF event.kind = "Terminated"
  THEN << Line("out", "[server] terminated with status: {:?}", event.data) >>
  ELSE << >>

(* ------------------------------ launcher ------------------------------- *)

RECURSIVE ProbeFrom(_, _)
\* The for loop of find_dev_cli_path from candidate i on: the candidates
\* whose existence it asks about, and the one it returns, if any.
ProbeFrom(i, files) ==
  IF i > Len(possible_paths)
  THEN [found |-> FALSE, path |-> <<>>, probed |-> <<>>]
  ELSE IF possible_paths[i] \in files
       THEN [found |-> TRUE, path |-> possible_paths[i], probed |-> <<possible_paths[i]>>]
       ELSE LET r == ProbeFrom(i + 1, files)
            IN  [r EXCEPT !.probed = <<possible_paths[i]>> \o @]

\* find_dev_cli_path, but the default is the last candidate.
FindDevCliPath_DefaultLast(files) ==
  LET r == ProbeFrom(1, files)
  IN  [path |-> IF r.found THEN r.path ELSE possible_paths[Len(possible_paths)],
       probed |-> r.probed]

\* find_dev_cli_path()
FindDevCliPath(files) ==
  LET r == ProbeFrom(1, files)
  IN  [path |-> IF r.found THEN r.path ELSE DefaultDevPath, probed |-> r.probed]

\* Command, but the script is given after the fixed arguments.
Command_ScriptLast(program, script, env) ==
  [program |-> program, args |-> FixedArgs \o <<script>>, env |-> env]

\* A command as handed to spawn().
Command(program, script, env) ==
  [program |-> program, args |-> <<script>> \o FixedArgs, env |-> env]

\* The outcome of one call of a start_* function.
Outcome(ok, err, branches, probed, attempts) ==
  [ok |-> ok, err |-> err, branches |-> branches, probed |-> probed, attempts |-> attempts]

\* start_production_server, but the script is looked up like the
\* development one instead of inside server_dir.
StartProductionServer_DevScript(server_dir, sidecar_ok, spawn_ok) ==
  IF ~sidecar_ok
  THEN Outcome(FALSE, ErrSidecar, <<"production">>, <<>>, <<>>)
  ELSE LET cli_path == DefaultDevPath
           cmd == Command("sidecar:node-server", cli_path,
                          { [name |-> "NODE_PATH", value |-> Join(server_dir, "node_modules")] })
       IN  IF spawn_ok
           THEN Outcome(TRUE, <<>>, <<"production">>, <<>>, <<cmd>>)
           ELSE Outcome(FALSE, ErrSpawn, <<"production">>, <<>>, <<cmd>>)

\* start_production_server(app, server_dir)
StartProductionServer(server_dir, sidecar_ok, spawn_ok) ==
  IF ~sidecar_ok
  THEN Outcome(FALSE, ErrSidecar, <<"production">>, <<>>, <<>>)
  ELSE LET cli_path == Join(server_dir, "cli.js")
           cmd == Command("sidecar:node-server", cli_path,
                          { [name |-> "NODE_PATH", value |-> Join(server_dir, "node_modules")] })
       IN  IF spawn_ok
           THEN Outcome(TRUE, <<>>, <<"production">>, <<>>, <<cmd>>)
           ELSE Outcome(FALSE, ErrSpawn, <<"production">>, <<>>, <<cmd>>)

\* start_development_server(app)
StartDevelopmentServer(files, spawn_ok) ==
  LET found == FindDevCliPath(files)
      cmd == Command("node", found.path, {})
  IN  IF spawn_ok
      THEN Outcome(TRUE, <<>>, <<"development">>, found.probed, <<cmd>>)
      ELSE Outcome(FALSE, ErrSpawn, <<"development">>, found.probed, <<cmd>>)

\* Two outcomes one after the other.
Then(a, b) ==
  Outcome(b.ok, b.err, a.branches \o b.branches, a.probed \o b.probed,
          a.attempts \o b.attempts)

\* start_server, but a failed production launch falls back to development.
StartServerOutcome_Fallback(resource_dir, files, sidecar_ok, spawn_ok) ==
  IF resource_dir = ResourceDirErr
  THEN Outcome(FALSE, ErrResourceDir, <<>>, <<>>, <<>>)
  ELSE LET server_dir == Join(resource_dir, "server")
           prod == StartProductionServer(server_dir, sidecar_ok, spawn_ok)
           dev == StartDevelopmentServer(files, spawn_ok)
           r == IF server_dir \in files
                THEN (IF prod.ok THEN prod ELSE Then(prod, dev))
                ELSE dev
       IN  [r EXCEPT !.probed = <<server_dir>> \o @]

\* start_server(app)
StartServerOutcome(resource_dir, files, sidecar_ok, spawn_ok) ==
  IF resource_dir = ResourceDirErr
  THEN Outcome(FALSE, ErrResourceDir, <<>>, <<>>, <<>>)
  ELSE LET server_dir == Join(resource_dir, "server")
           r == IF server_dir \in files
                THEN StartProductionServer(server_dir, sidecar_ok, spawn_ok)
                ELSE StartDevelopmentServer(files, spawn_ok)
       IN  [r EXCEPT !.probed = <<server_dir>> \o @]

(* ------------------------------- state --------------------------------- *)

VARIABLES
  run,        \* number of the current application instance
  host,       \* "running" | "exited"
  fs,         \* the paths that exist on the filesystem
  setup_pc,   \* position of the setup closure of main
  srv_pc,     \* position of the server thread of this instance
  launch,     \* what start_server did in this instance
  children,   \* every server child process spawned so far
  rx,         \* events sent by this instance's child, not yet received
  closed,     \* the child's event stream has been closed by the sender
  handled,    \* events the relay loop has received, in order
  log,        \* lines written to stdout/stderr by this instance
  upd_pc,     \* position of the update task of this instance
  upd_trace,  \* calls made and answers received by the update task
  elapsed     \* whole seconds the update task has been asleep

vars == << run, host, fs, setup_pc, srv_pc, launch, children, rx, closed,
           handled, log, upd_pc, upd_trace, elapsed >>

NoLaunch == [calls |-> 0, branches |-> <<>>, probed |-> <<>>, attempts |-> <<>>]

\* The state when main enters the setup closure, on the filesystem files.
Start(files) ==
  /\ run = 1
  /\ host = "running"
  /\ fs = files
  /\ setup_pc = "begin"
  /\ srv_pc = "unspawned"
  /\ launch = NoLaunch
  /\ children = <<>>
  /\ rx = <<>>
  /\ closed = FALSE
  /\ handled = <<>>
  /\ log = <<>>
  /\ upd_pc = "unspawned"
  /\ upd_trace = <<>>
  /\ elapsed = 0

\* Filesystems of the whole-program specification: a bundled installation,
\* a development tree with cli.js in the working directory, and neither.
FsMain == { { Join(r, "server") : r \in ResourceRoots }, { <<"cli.js">> }, {} }

Init == \E files \in FsMain : Start(files)

\* The launcher on every filesystem.
InitLaunch == \E files \in SUBSET ProbePaths : Start(files)

(* ------------------------------ host setup ----------------------------- *)

\* main, setup closure: std::thread::spawn of the server thread.
SetupSpawnServer ==
  /\ host = "running"
  /\ setup_pc = "begin"
  /\ setup_pc' = "server_spawned"
  /\ srv_pc' = "ready"
  /\ UNCHANGED << run, host, fs, launch, children, rx, closed, handled, log,
                  upd_pc, upd_trace, elapsed >>

\* One entry of the update task's trace.
T(op, what, arg) == [op |-> op, what |-> what, arg |-> arg]

\* main, setup closure: async_runtime::spawn of check_for_updates, which
\* starts by sleeping.
SetupSpawnUpdate ==
  /\ host = "running"
  /\ setup_pc = "server_spawned"
  /\ setup_pc' = "update_spawned"
  /\ upd_pc' = "sleeping"
  /\ upd_trace' = << T("sleep", "", <<UpdateDelaySecs>>) >>
  /\ UNCHANGED << run, host, fs, srv_pc, launch, children, rx, closed,
                  handled, log, elapsed >>

\* SetupReturn, but setup joins the server thread before it returns.
SetupReturn_JoinsServer ==
  /\ host = "running"
  /\ setup_pc = "update_spawned"
  /\ srv_pc # "ready"
  /\ setup_pc' = "returned"
  /\ UNCHANGED << run, host, fs, srv_pc, launch, children, rx, closed,
                  handled, log, upd_pc, upd_trace, elapsed >>

\* main, setup closure: Ok(())
SetupReturn ==
  /\ host = "running"
  /\ setup_pc = "update_spawned"
  /\ setup_pc' = "returned"
  /\ UNCHANGED << run, host, fs, srv_pc, launch, children, rx, closed,
                  handled, log, upd_pc, upd_trace, elapsed >>

(* ----------------------------- server thread --------------------------- *)

\* StartServer, but main drops the Err of start_server without logging it.
StartServer_Unlogged ==
  /\ host = "running"
  /\ srv_pc = "ready"
  /\ \E resource_dir \in ResourceDirResults, sidecar_ok \in BOOLEAN, spawn_ok \in BOOLEAN :
       LET r == StartServerOutcome(resource_dir, fs, sidecar_ok, spawn_ok)
       IN  /\ launch' = [calls    |-> launch.calls + 1,
                         branches |-> launch.branches \o r.branches,
                         probed   |-> launch.probed \o r.probed,
                         attempts |-> launch.attempts \o r.attempts]
           /\ IF r.ok
              THEN /\ children' = Append(children,
                                         [owner |-> run, alive |-> TRUE, held |-> FALSE,
                                          cmd |-> r.attempts[Len(r.attempts)]])
                   /\ srv_pc' = "relay"
                   /\ log' = log
              ELSE /\ children' = children
                   /\ srv_pc' = "failed"
                   /\ log' = log
  /\ rx' = <<>>
  /\ closed' = FALSE
  /\ UNCHANGED << run, host, fs, setup_pc, handled, upd_pc, upd_trace, elapsed >>

\* The server thread: start_server, and the eprintln! of main on Err.
\* _child, the handle of the spawned child, is a local of start_*_server:
\* when the function has returned the handle is no longer held.
StartServer ==
  /\ host = "running"
  /\ srv_pc = "ready"
  /\ \E resource_dir \in ResourceDirResults, sidecar_ok \in BOOLEAN, spawn_ok \in BOOLEAN :
       LET r == StartServerOutcome(resource_dir, fs, sidecar_ok, spawn_ok)
       IN  /\ launch' = [calls    |-> launch.calls + 1,
                         branches |-> launch.branches \o r.branches,
                         probed   |-> launch.probed \o r.probed,
                         attempts |-> launch.attempts \o r.attempts]
           /\ IF r.ok
              THEN /\ children' = Append(children,
                                         [owner |-> run, alive |-> TRUE, held |-> FALSE,
                                          cmd |-> r.attempts[Len(r.attempts)]])
                   /\ srv_pc' = "relay"
                   /\ log' = log
              ELSE /\ children' = children
                   /\ srv_pc' = "failed"
                   /\ log' = Append(log, Line("err", "Failed to start server: {}", r.err))
  /\ rx' = <<>>
  /\ closed' = FALSE
  /\ UNCHANGED << run, host, fs, setup_pc, handled, upd_pc, upd_trace, elapsed >>

\* The index in children of the child this instance spawned, 0 if none.
MyChild ==
  IF \E i \in 1..Len(children) : children[i].owner = run
  THEN CHOOSE i \in 1..Len(children) : children[i].owner = run
  ELSE 0

\* Events the child has delivered so far that are not Terminated.
OutputCount ==
  Cardinality({ i \in 1..Len(handled) : handled[i].kind # "Terminated" }) +
  Cardinality({ i \in 1..Len(rx) : rx[i].kind # "Terminated" })

\* The child of the running instance produces one of events: the event is
\* sent on the channel.
ChildSends(events) ==
  /\ host = "running"
  /\ srv_pc = "relay"
  /\ ~closed
  /\ OutputCount < MaxOutput
  /\ \E e \in events : rx' = Append(rx, e)
  /\ UNCHANGED << run, host, fs, setup_pc, srv_pc, launch, children, closed,
                  handled, log, upd_pc, upd_trace, elapsed >>

\* The child of the running instance exits with one of codes: Terminated is
\* sent.
ChildExits(events) ==
  /\ host = "running"
  /\ srv_pc = "relay"
  /\ ~closed
  /\ MyChild # 0
  /\ children[MyChild].alive
  /\ \E e \in events : rx' = Append(rx, e)
  /\ children' = [children EXCEPT ![MyChild].alive = FALSE]
  /\ UNCHANGED << run, host, fs, setup_pc, srv_pc, launch, closed, handled,
                  log, upd_pc, upd_trace, elapsed >>

\* A line on stdout or stderr, decodable or not, or a read error.
ChildOutput == ChildSends(OutputEvents)

\* The child exits with any code.
ChildTerminates == ChildExits(TerminatedEvents)

\* The whole-program specification tells the child's events apart no
\* further than: a decodable line on stdout, an undecodable line on stderr,
\* exit with code 0.
ChildOutputMain == ChildSends({ Event("Stdout", <<195, 169>>), Event("Stderr", <<195>>) })

ChildTerminatesMain == ChildExits({ Event("Terminated", <<0>>) })

\* After the child has exited the senders are dropped: the stream closes.
StreamCloses ==
  /\ host = "running"
  /\ srv_pc = "relay"
  /\ ~closed
  /\ MyChild # 0
  /\ ~children[MyChild].alive
  /\ closed' = TRUE
  /\ UNCHANGED << run, host, fs, setup_pc, srv_pc, launch, children, rx,
                  handled, log, upd_pc, upd_trace, elapsed >>

\* A child whose instance has exited comes to its end by itself.
OrphanExits ==
  /\ \E i \in 1..Len(children) :
       /\ children[i].alive
       /\ (children[i].owner # run \/ host = "exited")
       /\ children' = [children EXCEPT ![i].alive = FALSE]
  /\ UNCHANGED << run, host, fs, setup_pc, srv_pc, launch, rx, closed,
                  handled, log, upd_pc, upd_trace, elapsed >>

\* RelayRecv, but the relay cannot log while the update task holds a
\* modal dialog open.
RelayRecv_BehindDialog ==
  /\ host = "running"
  /\ srv_pc = "relay"
  /\ upd_pc \notin {"prompting", "complete_dialog", "failed_dialog"}
  /\ rx # <<>>
  /\ handled' = Append(handled, Head(rx))
  /\ log' = log \o HandleCommandEvent(Head(rx))
  /\ rx' = Tail(rx)
  /\ UNCHANGED << run, host, fs, setup_pc, srv_pc, launch, children, closed,
                  upd_pc, upd_trace, elapsed >>

\* The relay loop: rx.blocking_recv() returns Some(event).
RelayRecv ==
  /\ host = "running"
  /\ srv_pc = "relay"
  /\ rx # <<>>
  /\ handled' = Append(handled, Head(rx))
  /\ log' = log \o HandleCommandEvent(Head(rx))
  /\ rx' = Tail(rx)
  /\ UNCHANGED << run, host, fs, setup_pc, srv_pc, launch, children, closed,
                  upd_pc, upd_trace, elapsed >>

\* RelayEnd, but the loop also breaks after an Error or Terminated event.
RelayEnd_OnTerminated ==
  /\ host = "running"
  /\ srv_pc = "relay"
  /\ \/ rx = <<>> /\ closed
     \/ /\ handled # <<>>
        /\ handled[Len(handled)].kind \in {"Error", "Terminated"}
  /\ srv_pc' = "closed"
  /\ UNCHANGED << run, host, fs, setup_pc, launch, children, rx, closed,
                  handled, log, upd_pc, upd_trace, elapsed >>

\* The relay loop: rx.blocking_recv() returns None, the loop ends.
RelayEnd ==
  /\ host = "running"
  /\ srv_pc = "relay"
  /\ rx = <<>>
  /\ closed
  /\ srv_pc' = "closed"
  /\ UNCHANGED << run, host, fs, setup_pc, launch, children, rx, closed,
                  handled, log, upd_pc, upd_trace, elapsed >>

(* ------------------------------ update task --------------------------- *)

\* What the update task does between two points where it waits: where it
\* waits next, the calls it makes, the lines it logs.
Step(pc, trace, lines) == [pc |-> pc, trace |-> trace, lines |-> lines]

\* The version of the update the check found in this instance.
FoundVersion ==
  LET i == CHOOSE i \in 1..Len(upd_trace) :
             upd_trace[i].op = "check" /\ upd_trace[i].what = "Some"
  IN  upd_trace[i].arg

\* OnCheckResult, but 'no update' is announced in a dialog.
OnCheckResult_DialogOnNone(res, version) ==
  IF res = "Some"
  THEN Step("prompting",
            << T("check", "Some", version), T("show", "Update Available", version) >>,
            << >>)
  ELSE IF res = "None"
  THEN Step("failed_dialog",
            << T("check", "None", <<>>), T("show", "Update Failed", <<>>) >>,
            << Line("out", "No updates available", <<>>) >>)
  ELSE Step("done",
            << T("check", "Err", ErrCheck) >>,
            << Line("err", "Failed to check for updates: {}", ErrCheck) >>)

\* OnCheckResult, but a failed check is reported in the error dialog.
OnCheckResult_DialogOnErr(res, version) ==
  IF res = "Some"
  THEN Step("prompting",
            << T("check", "Some", version), T("show", "Update Available", version) >>,
            << >>)
  ELSE IF res = "None"
  THEN Step("done",
            << T("check", "None", <<>>) >>,
            << Line("out", "No updates available", <<>>) >>)
  ELSE Step("failed_dialog",
            << T("check", "Err", ErrCheck), T("show", "Update Failed", ErrCheck) >>,
            << Line("err", "Failed to check for updates: {}", ErrCheck) >>)

\* check_for_updates: the match on the result of updater().check(), up to
\* the blocking_show of the prompt.
OnCheckResult(res, version) ==
  IF res = "Some"
  THEN Step("prompting",
            << T("check", "Some", version), T("show", "Update Available", version) >>,
            << >>)
  ELSE IF res = "None"
  THEN Step("done",
            << T("check", "None", <<>>) >>,
            << Line("out", "No updates available", <<>>) >>)
  ELSE Step("done",
            << T("check", "Err", ErrCheck) >>,
            << Line("err", "Failed to check for updates: {}", ErrCheck) >>)

\* OnPromptAnswer, but the answer of the prompt is not tested.
OnPromptAnswer_IgnoresAnswer(should_update, version) ==
  Step("installing",
       << T("dismiss", "Update Available", IF should_update THEN <<1>> ELSE <<0>>),
          T("install", "call", version) >>,
       << Line("out", "User accepted update to {}", version) >>)

\* check_for_updates: from the answer of the prompt to the call of
\* download_and_install.
OnPromptAnswer(should_update, version) ==
  IF should_update
  THEN Step("installing",
            << T("dismiss", "Update Available", <<1>>), T("install", "call", version) >>,
            << Line("out", "User accepted update to {}", version) >>)
  ELSE Step("done",
            << T("dismiss", "Update Available", <<0>>) >>,
            << >>)

\* OnInstallResult, but a failed install is only logged.
OnInstallResult_SilentFailure(ok) ==
  IF ok
  THEN Step("complete_dialog",
            << T("install", "Ok", <<>>), T("show", "Update Complete", <<>>) >>,
            << >>)
  ELSE Step("done",
            << T("install", "Err", ErrInstall) >>,
            << Line("err", "Failed to install update: {}", ErrInstall) >>)

\* OnInstallResult, but a failed install is tried again.
OnInstallResult_Retry(ok) ==
  IF ok
  THEN Step("complete_dialog",
            << T("install", "Ok", <<>>), T("show", "Update Complete", <<>>) >>,
            << >>)
  ELSE Step("installing",
            << T("install", "Err", ErrInstall), T("install", "call", FoundVersion) >>,
            << Line("err", "Failed to install update: {}", ErrInstall) >>)

\* check_for_updates: the match on the result of download_and_install, up
\* to the blocking_show of the success or the error dialog.
OnInstallResult(ok) ==
  IF ok
  THEN Step("complete_dialog",
            << T("install", "Ok", <<>>), T("show", "Update Complete", <<>>) >>,
            << >>)
  ELSE Step("failed_dialog",
            << T("install", "Err", ErrInstall), T("show", "Update Failed", ErrInstall) >>,
            << Line("err", "Failed to install update: {}", ErrInstall) >>)

\* OnCompleteDismissed, but the function returns without restarting.
OnCompleteDismissed_NoRestart ==
  Step("done", << T("dismiss", "Update Complete", <<>>) >>, << >>)

\* check_for_updates: after the success dialog returns, app.restart().
OnCompleteDismissed ==
  Step("restarted",
       << T("dismiss", "Update Complete", <<>>), T("restart", "", <<>>) >>,
       << >>)

\* OnFailedDismissed, but the check is tried again after a failure.
OnFailedDismissed_Recheck ==
  Step("checking",
       << T("dismiss", "Update Failed", <<>>), T("check", "call", <<>>) >>,
       << >>)

\* check_for_updates: after the error dialog returns, the function ends.
OnFailedDismissed ==
  Step("done", << T("dismiss", "Update Failed", <<>>) >>, << >>)

\* app.restart() was called in this piece of trace.
Restarts(trace) == \E i \in 1..Len(trace) : trace[i].op = "restart"

\* The update task takes one step; app.restart() ends the instance.
UpdateStep(step) ==
  /\ upd_pc' = step.pc
  /\ upd_trace' = upd_trace \o step.trace
  /\ log' = log \o step.lines
  /\ host' = IF Restarts(step.trace) THEN "exited" ELSE host
  /\ UNCHANGED << run, fs, setup_pc, srv_pc, launch, children, rx, closed, handled, elapsed >>

\* One more second passes while the update task sleeps.
Tick ==
  /\ host = "running"
  /\ upd_pc = "sleeping"
  /\ elapsed < UpdateDelaySecs
  /\ elapsed' = elapsed + 1
  /\ UNCHANGED << run, host, fs, setup_pc, srv_pc, launch, children, rx, closed,
                  handled, log, upd_pc, upd_trace >>

\* SleepElapsed, but the sleep is not awaited.
SleepElapsed_NotAwaited ==
  /\ host = "running"
  /\ upd_pc = "sleeping"
  /\ UpdateStep(Step("checking", << T("check", "call", <<>>) >>, << >>))

\* The 3 second sleep is over: updater().check() is called.
SleepElapsed ==
  /\ host = "running"
  /\ upd_pc = "sleeping"
  /\ elapsed >= UpdateDelaySecs
  /\ UpdateStep(Step("checking", << T("check", "call", <<>>) >>, << >>))

\* updater().check() returns.
CheckReturns ==
  /\ host = "running"
  /\ upd_pc = "checking"
  /\ \/ \E v \in Versions : UpdateStep(OnCheckResult("Some", v))
     \/ UpdateStep(OnCheckResult("None", <<>>))
     \/ UpdateStep(OnCheckResult("Err", <<>>))

\* The user answers the 'Update Available' prompt.
PromptAnswered ==
  /\ host = "running"
  /\ upd_pc = "prompting"
  /\ \E should_update \in BOOLEAN : UpdateStep(OnPromptAnswer(should_update, FoundVersion))

\* download_and_install returns.
InstallReturns ==
  /\ host = "running"
  /\ upd_pc = "installing"
  /\ \E ok \in BOOLEAN : UpdateStep(OnInstallResult(ok))

\* The user dismisses the 'Update Complete' dialog.
CompleteDismissed ==
  /\ host = "running"
  /\ upd_pc = "complete_dialog"
  /\ UpdateStep(OnCompleteDismissed)

\* The user dismisses the 'Update Failed' dialog.
FailedDismissed ==
  /\ host = "running"
  /\ upd_pc = "failed_dialog"
  /\ UpdateStep(OnFailedDismissed)

(* ------------------------------- restart ------------------------------- *)

\* The instance started by app.restart() begins: main runs from the top.
\* Nothing of the old instance is carried over but the filesystem and the
\* processes the operating system still runs.
Relaunch ==
  /\ host = "exited"
  /\ run < MaxRuns
  /\ run' = run + 1
  /\ host' = "running"
  /\ setup_pc' = "begin"
  /\ srv_pc' = "unspawned"
  /\ launch' = NoLaunch
  /\ rx' = <<>>
  /\ closed' = FALSE
  /\ handled' = <<>>
  /\ log' = <<>>
  /\ upd_pc' = "unspawned"
  /\ upd_trace' = <<>>
  /\ elapsed' = 0
  /\ UNCHANGED << fs, children >>

Next ==
  \/ SetupSpawnServer
  \/ SetupSpawnUpdate
  \/ SetupReturn
  \/ StartServer
  \/ ChildOutputMain
  \/ ChildTerminatesMain
  \/ StreamCloses
  \/ OrphanExits
  \/ RelayRecv
  \/ RelayEnd
  \/ Tick
  \/ SleepElapsed
  \/ CheckReturns
  \/ PromptAnswered
  \/ InstallReturns
  \/ CompleteDismissed
  \/ FailedDismissed
  \/ Relaunch

Spec == Init /\ [][Next]_vars

\* Host setup and the server thread alone, on every filesystem.
NextLaunch ==
  \/ SetupSpawnServer
  \/ SetupSpawnUpdate
  \/ SetupReturn
  \/ StartServer

SpecLaunch == InitLaunch /\ [][NextLaunch]_vars

\* Host setup, the server thread, the child and the relay loop, with every
\* event the child can deliver.
NextRelay ==
  \/ SetupSpawnServer
  \/ SetupSpawnUpdate
  \/ SetupReturn
  \/ StartServer
  \/ ChildOutput
  \/ ChildTerminates
  \/ StreamCloses
  \/ RelayRecv
  \/ RelayEnd

SpecRelay == Init /\ [][NextRelay]_vars

\* Host setup, the launch of the server and the update task, over the
\* restarts; the child's output is left out. Every step the update task
\* waits on comes back in the end: the sleep, the check, the install and
\* each dialog.
NextUpdate ==
  \/ SetupSpawnServer
  \/ SetupSpawnUpdate
  \/ SetupReturn
  \/ StartServer
  \/ Tick
  \/ SleepElapsed
  \/ CheckReturns
  \/ PromptAnswered
  \/ InstallReturns
  \/ CompleteDismissed
  \/ FailedDismissed
  \/ Relaunch

UpdateFairness ==
  /\ WF_vars(Tick)
  /\ WF_vars(SleepElapsed)
  /\ WF_vars(CheckReturns)
  /\ WF_vars(PromptAnswered)
  /\ WF_vars(InstallReturns)
  /\ WF_vars(CompleteDismissed)
  /\ WF_vars(FailedDismissed)

SpecUpdate == Init /\ [][NextUpdate]_vars /\ UpdateFairness

TypeOK ==
  /\ run \in 1..MaxRuns
  /\ host \in {"running", "exited"}
  /\ fs \subseteq ProbePaths
  /\ setup_pc \in {"begin", "server_spawned", "update_spawned", "returned"}
  /\ srv_pc \in {"unspawned", "ready", "failed", "relay", "closed"}
  /\ upd_pc \in {"unspawned", "sleeping", "checking", "prompting", "installing",
                 "complete_dialog", "failed_dialog", "restarted", "done"}
  /\ closed \in BOOLEAN
  /\ elapsed \in 0..UpdateDelaySecs

(* ====================== properties of the update flow ================== *)

\* Positions of the update task's trace that hold entry e.
At(e) == { i \in 1..Len(upd_trace) : upd_trace[i] = e }

\* Positions of the update task's trace with operation op.
AtOp(op) == { i \in 1..Len(upd_trace) : upd_trace[i].op = op }

\* Positions where a dialog with this title is opened, is dismissed.
Shown(title) == { i \in AtOp("show") : upd_trace[i].what = title }

Dismissed(title) == { i \in AtOp("dismiss") : upd_trace[i].what = title }

AnyDialog == AtOp("show")

InstallCalls == { i \in AtOp("install") : upd_trace[i].what = "call" }

CheckFound == { i \in AtOp("check") : upd_trace[i].what = "Some" }

Accepted == At(T("dismiss", "Update Available", <<1>>))

Declined == At(T("dismiss", "Update Available", <<0>>))

InstallSucceeded == At(T("install", "Ok", <<>>))

InstallFailed == { i \in AtOp("install") : upd_trace[i].what = "Err" }

CheckedNone == At(T("check", "None", <<>>))

CheckFailed == { i \in AtOp("check") : upd_trace[i].what = "Err" }

\* The update flow of this instance is over.
UpdateEnded == upd_pc \in {"done", "restarted"}

\* C1: app.restart() is never invoked more than once, every invocation comes
\* after the 'Update Complete' dialog was shown and then dismissed, and a
\* flow that found an update, was accepted and installed it has, once it is
\* over, invoked app.restart() exactly once.
C1_RestartOnceAfterSuccessDialog ==
  /\ Cardinality(AtOp("restart")) <= 1
  /\ \A r \in AtOp("restart") :
       \E d \in Dismissed("Update Complete") :
         /\ d < r
         /\ \E sh \in Shown("Update Complete") : sh < d
  /\ (UpdateEnded /\ CheckFound # {} /\ Accepted # {} /\ InstallSucceeded # {})
       => Cardinality(AtOp("restart")) = 1

\* An accepted and installed update has led to the restart.
C1_Witness ==
  /\ CheckFound # {} /\ Accepted # {} /\ InstallSucceeded # {}
  /\ Dismissed("Update Complete") # {}
  /\ AtOp("restart") # {}
  /\ host = "exited"

\* C2: once the prompt is declined there is no download_and_install and no
\* restart; and every download_and_install call comes after an accept
\* answer of the prompt, which comes after the check that found the very
\* version being installed.
C2_InstallOnlyAfterAccept ==
  /\ Declined # {} => (AtOp("install") = {} /\ AtOp("restart") = {})
  /\ \A c \in InstallCalls :
       \E a \in Accepted :
         /\ a < c
         /\ \E f \in CheckFound : f < a /\ upd_trace[f].arg = upd_trace[c].arg

\* The prompt was declined and the flow is over.
C2_Witness == Declined # {} /\ UpdateEnded

\* C3: when the check answers that there is no update, the flow is over, no
\* dialog was opened, and neither download_and_install nor restart was
\* invoked.
C3_NoUpdateIsSilent ==
  CheckedNone # {} =>
    /\ upd_pc = "done"
    /\ AnyDialog = {}
    /\ AtOp("install") = {}
    /\ AtOp("restart") = {}
    /\ host = "running"

\* The check answered 'no update'.
C3_Witness == CheckedNone # {} /\ upd_pc = "done"

\* C4: when download_and_install fails, the 'Update Failed' dialog is shown
\* after the failure, there is no restart, and download_and_install was
\* called once only.
C4_InstallFailureShownNoRestart ==
  \A f \in InstallFailed :
    /\ Accepted # {}
    /\ \E sh \in Shown("Update Failed") : f < sh
    /\ AtOp("restart") = {}
    /\ host = "running"
    /\ Cardinality(InstallCalls) = 1
    /\ upd_pc \in {"failed_dialog", "done"}

\* The install failed, the error dialog was dismissed, the flow is over.
C4_Witness ==
  InstallFailed # {} /\ Dismissed("Update Failed") # {} /\ upd_pc = "done"

\* C5: when the check itself fails, the error is written to the error log,
\* the flow is over, no dialog was opened, and neither download_and_install
\* nor restart was invoked.
C5_CheckFailureOnlyLogged ==
  \A f \in CheckFailed :
    /\ \E i \in 1..Len(log) :
         log[i] = Line("err", "Failed to check for updates: {}", upd_trace[f].arg)
    /\ upd_pc = "done"
    /\ AnyDialog = {}
    /\ AtOp("install") = {}
    /\ AtOp("restart") = {}
    /\ host = "running"

\* The check failed.
C5_Witness == CheckFailed # {} /\ upd_pc = "done"

(* ================== properties of the server launch ==================== *)

\* The server children that are running.
Running == { i \in 1..Len(children) : children[i].alive }

\* The server children spawned by the current instance.
Mine == { i \in 1..Len(children) : children[i].owner = run }

\* The server directory of the one resource root.
ServerDir == CHOOSE d \in { Join(r, "server") : r \in ResourceRoots } : TRUE

\* start_server has returned in this instance.
ServerStarted == srv_pc \in {"failed", "relay", "closed"}

\* start_server failed because the resource directory did not resolve.
ResourceDirFailed ==
  \E i \in 1..Len(log) :
    log[i] = Line("err", "Failed to start server: {}", ErrResourceDir)

\* C6: never two server children running at once, and a running server
\* child always belongs to the current instance, which is still up.
C6_NeverOrphanedNorDuplicated ==
  /\ Cardinality(Running) <= 1
  /\ \A i \in Running : children[i].owner = run /\ host = "running"

\* C7, as stated: per instance at most one child, start_server called at
\* most once and, once it has returned, exactly one branch taken and at
\* most one spawn attempted.
C7_ExactlyOneBranch ==
  /\ Cardinality(Mine) <= 1
  /\ launch.calls <= 1
  /\ Len(launch.attempts) <= 1
  /\ ServerStarted => (launch.calls = 1 /\ Len(launch.branches) = 1)

\* C7, amended: per instance at most one child, start_server called at most
\* once, at most one spawn attempted, and once start_server has returned
\* exactly one branch was taken unless the resource directory did not
\* resolve, in which case none was.
C7_AtMostOneLaunch ==
  /\ Cardinality(Mine) <= 1
  /\ Cardinality(Mine \cap Running) <= 1
  /\ launch.calls <= 1
  /\ Len(launch.attempts) <= 1
  /\ Len(launch.branches) <= 1
  /\ ServerStarted =>
       /\ launch.calls = 1
       /\ Len(launch.branches) = (IF ResourceDirFailed THEN 0 ELSE 1)
  /\ Mine # {} => (srv_pc \in {"relay", "closed"} /\ Len(launch.attempts) = 1)

\* A production launch whose spawn failed: one branch, one attempt, no child.
C7_Witness ==
  /\ srv_pc = "failed"
  /\ launch.branches = <<"production">>
  /\ Len(launch.attempts) = 1
  /\ Mine = {}

\* C8: once start_server has chosen a mode, it is production exactly when
\* the server directory exists and development exactly when it does not;
\* in production every command has server/cli.js as its script and no
\* development candidate was probed.
C8_ModeResolution ==
  (ServerStarted /\ ~ResourceDirFailed) =>
    /\ Len(launch.branches) = 1
    /\ (launch.branches[1] = "production") <=> (ServerDir \in fs)
    /\ (launch.branches[1] = "development") <=> (ServerDir \notin fs)
    /\ launch.branches[1] = "production" =>
         /\ \A i \in 1..Len(launch.attempts) :
              launch.attempts[i].args[1] = Join(ServerDir, "cli.js")
         /\ \A i \in 1..Len(launch.probed) :
              launch.probed[i] \notin { <<"..", "cli.js">>, <<"..", "..", "cli.js">>, <<"cli.js">> }

\* A production launch on a filesystem that has every development candidate.
C8_Witness ==
  /\ srv_pc = "relay"
  /\ fs = ProbePaths
  /\ launch.branches = <<"production">>
  /\ Len(launch.attempts) = 1

\* The first of ../cli.js, ../../cli.js, cli.js that exists in files, and
\* ../cli.js when none does.
FirstExisting(files) ==
  IF <<"..", "cli.js">> \in files THEN <<"..", "cli.js">>
  ELSE IF <<"..", "..", "cli.js">> \in files THEN <<"..", "..", "cli.js">>
  ELSE IF <<"cli.js">> \in files THEN <<"cli.js">>
  ELSE <<"..", "cli.js">>

\* C9: in development mode the script handed to the child is the first
\* existing candidate in the order ../cli.js, ../../cli.js, cli.js, and
\* ../cli.js when none exists; the lookup never fails, so the spawn is
\* always attempted.
C9_FirstExistingCandidate ==
  (ServerStarted /\ launch.branches = <<"development">>) =>
    /\ Len(launch.attempts) = 1
    /\ launch.attempts[1].args[1] = FirstExisting(fs)

\* A development launch where no candidate exists.
C9_Witness ==
  /\ ServerStarted
  /\ launch.branches = <<"development">>
  /\ fs = {}
  /\ launch.attempts[1].args[1] = <<"..", "cli.js">>

(* ===================== properties of the relay loop ==================== *)

\* What a reader of the log sees of a line: its sink, its prefix, its text.
Seen(sink, prefix, text) == [sink |-> sink, prefix |-> prefix, text |-> text]

\* The prefix of a line written with format fmt.
Prefix(fmt) ==
  IF fmt \in {"[server] {}", "[server] terminated with status: {:?}"} THEN "[server]"
  ELSE IF fmt = "[server error] {}" THEN "[server error]"
  ELSE ""

RECURSIVE SeenLog(_)
\* The log as its reader sees it.
SeenLog(lines) ==
  IF lines = <<>> THEN <<>>
  ELSE << Seen(Head(lines).sink, Prefix(Head(lines).fmt), Head(lines).arg) >>
         \o SeenLog(Tail(lines))

RECURSIVE Relayed(_)
\* What the relay is to write for a sequence of events: one line per
\* decodable Stdout or Stderr event, per Error and per Terminated event.
Relayed(events) ==
  IF events = <<>> THEN <<>>
  ELSE LET e == Head(events)
           one == CASE e.kind = "Stdout" /\ FromUtf8(e.data).ok ->
                         << Seen("out", "[server]", FromUtf8(e.data).s) >>
                    [] e.kind = "Stderr" /\ FromUtf8(e.data).ok ->
                         << Seen("err", "[server]", FromUtf8(e.data).s) >>
                    [] e.kind = "Error" -> << Seen("err", "[server error]", e.data) >>
                    [] e.kind = "Terminated" -> << Seen("out", "[server]", e.data) >>
                    [] OTHER -> << >>
       IN  one \o Relayed(Tail(events))

\* C10: while the relay runs and after it has ended, the log holds exactly
\* the lines due to the events received so far, in their order; one stdout
\* line, one stderr line and Terminated(0) give one line on the
\* informational log, one on the error log and one termination line on the
\* informational log.
C10_OneLinePerEvent ==
  srv_pc \in {"relay", "closed"} =>
    /\ SeenLog(log) = Relayed(handled)
    /\ handled = << Event("Stdout", <<104>>), Event("Stderr", <<195, 169>>),
                    Event("Terminated", <<0>>) >>
         => log = << Line("out", "[server] {}", <<104>>),
                     Line("err", "[server] {}", <<233>>),
                     Line("out", "[server] terminated with status: {:?}", <<0>>) >>

\* One stdout line, one stderr line and Terminated(0) were relayed and the
\* loop has ended.
C10_Witness ==
  /\ srv_pc = "closed"
  /\ handled = << Event("Stdout", <<104>>), Event("Stderr", <<195, 169>>),
                  Event("Terminated", <<0>>) >>
  /\ Len(log) = 3

\* A Stdout or Stderr event whose bytes are not valid UTF-8.
Undecodable(e) == e.kind \in {"Stdout", "Stderr"} /\ ~FromUtf8(e.data).ok

\* Every other event.
Loggable(e) == ~Undecodable(e)

\* The formats the relay writes with.
RelayFormats ==
  {"[server] {}", "[server error] {}", "[server] terminated with status: {:?}"}

\* C11: an undecodable Stdout or Stderr event adds no line to the log, be it
\* a relayed line or an error report: the log holds one line for each other
\* event received and is what it would be had the undecodable events never
\* arrived.  The loop goes on after it: it can receive whatever is waiting
\* on the channel, and it ends only when the stream is closed and empty.
C11_UndecodableDropped ==
  srv_pc \in {"relay", "closed"} =>
    /\ Len(log) = Len(SelectSeq(handled, Loggable))
    /\ SeenLog(log) = Relayed(SelectSeq(handled, Loggable))
    /\ \A i \in 1..Len(log) : log[i].fmt \in RelayFormats
    /\ (srv_pc = "relay" /\ rx # <<>>) => ENABLED RelayRecv
    /\ srv_pc = "closed" => (closed /\ rx = <<>>)

\* An undecodable stderr line came first; the stdout line and the
\* termination after it were relayed all the same.
C11_Witness ==
  /\ srv_pc = "closed"
  /\ handled = << Event("Stderr", <<195>>), Event("Stdout", <<104>>),
                  Event("Terminated", <<0>>) >>
  /\ log = << Line("out", "[server] {}", <<104>>),
              Line("out", "[server] terminated with status: {:?}", <<0>>) >>

(* ============== properties of the two tasks side by side =============== *)

\* Positions of the log that report a failed start_server.
StartFailures == { i \in 1..Len(log) : log[i].fmt = "Failed to start server: {}" }

\* The update task is not held up: whatever it waits for can come.
UpdateCanStep ==
  /\ upd_pc = "sleeping" => (ENABLED Tick \/ ENABLED SleepElapsed)
  /\ upd_pc = "checking" => ENABLED CheckReturns
  /\ upd_pc = "prompting" => ENABLED PromptAnswered
  /\ upd_pc = "installing" => ENABLED InstallReturns
  /\ upd_pc = "complete_dialog" => ENABLED CompleteDismissed
  /\ upd_pc = "failed_dialog" => ENABLED FailedDismissed

\* C12: when start_server has failed, the log holds exactly one 'Failed to
\* start server' line, on the error log, carrying the error of the step that
\* failed (resource directory: no branch taken; sidecar: production branch,
\* no spawn; spawn: one spawn attempted); no child exists, no event was
\* relayed; the instance is still up unless the update flow itself has
\* restarted it, and while it is up the update task can take its next step.
\* Without a failure there is no such line.
C12_StartFailureLoggedHostGoesOn ==
  /\ srv_pc # "failed" => StartFailures = {}
  /\ srv_pc = "failed" =>
       /\ Cardinality(StartFailures) = 1
       /\ \A i \in StartFailures :
            /\ log[i].sink = "err"
            /\ \/ log[i].arg = ErrResourceDir /\ launch.branches = <<>>
               \/ /\ log[i].arg = ErrSidecar
                  /\ launch.branches = <<"production">> /\ launch.attempts = <<>>
               \/ log[i].arg = ErrSpawn /\ Len(launch.attempts) = 1
       /\ Mine = {}
       /\ handled = <<>> /\ rx = <<>>
       /\ \A i \in 1..Len(log) : log[i].fmt \notin RelayFormats
       /\ host = "exited" => AtOp("restart") # {}
       /\ host = "running" => UpdateCanStep

\* start_server failed and the update flow of the same instance went all
\* the way to the restart.
C12_Witness ==
  /\ srv_pc = "failed"
  /\ StartFailures # {}
  /\ upd_pc = "restarted"

\* C13: as long as the instance is up, the setup closure can always take
\* its next step, whatever the server thread and the update task are doing:
\* it never waits for start_server to run or finish, nor for the update
\* task, which may be blocked at the prompt.
C13_SetupNeverWaits ==
  host = "running" =>
    /\ setup_pc = "begin" => ENABLED SetupSpawnServer
    /\ setup_pc = "server_spawned" => ENABLED SetupSpawnUpdate
    /\ setup_pc = "update_spawned" => ENABLED SetupReturn

\* Setup has returned although start_server has not run yet and the update
\* task is blocked at the prompt.
C13_Witness ==
  /\ setup_pc = "returned"
  /\ srv_pc = "ready"
  /\ upd_pc = "prompting"
  /\ host = "running"

\* Positions of the trace where updater().check() is called.
CheckCalls == { i \in AtOp("check") : upd_trace[i].what = "call" }

\* C14, as stated: whenever the check has been started, 3 seconds of sleep
\* have elapsed and the setup closure has returned.
C14_CheckAfterDelayAndSetup ==
  CheckCalls # {} => (elapsed >= 3 /\ setup_pc = "returned")

\* C14, amended: whenever the check has been started, 3 seconds of sleep
\* have elapsed, the sleep comes before the check in the task, and the
\* setup closure has at least spawned the task; it need not have returned.
C14_CheckAfterDelay ==
  /\ upd_pc = "sleeping" => CheckCalls = {}
  /\ \A c \in CheckCalls :
       /\ elapsed >= 3
       /\ \E sl \in AtOp("sleep") : sl < c /\ upd_trace[sl].arg = <<3>>
       /\ setup_pc \in {"update_spawned", "returned"}

\* The check has just been started, after the full delay.
C14_Witness ==
  /\ upd_pc = "checking"
  /\ elapsed = 3
  /\ CheckCalls # {}

\* The update task is blocked in a modal dialog.
InDialog == upd_pc \in {"prompting", "complete_dialog", "failed_dialog"}

\* C15: while the instance is up and the update task is blocked in a dialog,
\* the relay can receive (and so log) an event that has arrived and the
\* server thread can run start_server; and while start_server has not run
\* yet, or the relay waits on an empty channel, the update task can take
\* its next step, be it the delay, the check, the prompt or the install.
C15_NeitherBlocksTheOther ==
  host = "running" =>
    /\ (InDialog /\ srv_pc = "relay" /\ rx # <<>>) => ENABLED RelayRecv
    /\ (InDialog /\ srv_pc = "ready") => ENABLED StartServer
    /\ (srv_pc = "ready" \/ (srv_pc = "relay" /\ rx = <<>>)) => UpdateCanStep

\* The prompt is open, the relay has already logged an event and the next
\* one has arrived.
C15_Witness ==
  /\ host = "running"
  /\ upd_pc = "prompting"
  /\ srv_pc = "relay"
  /\ handled # <<>>
  /\ rx # <<>>

\* C16: in each instance updater().check() is called at most once, and once
\* check_for_updates has returned without a restart (no update, failed
\* check, declined prompt, failed install) the update task does nothing
\* more: no call, no dialog, no restart, and the instance is not replaced.
C16_OneShot ==
  /\ [](Cardinality(CheckCalls) <= 1)
  /\ [][upd_pc = "done" =>
          /\ upd_pc' = "done"
          /\ upd_trace' = upd_trace
          /\ host' = host
          /\ run' = run]_vars

\* check_for_updates has returned after its one check while the server is
\* still being relayed.
C16_Witness ==
  /\ upd_pc = "done"
  /\ Cardinality(CheckCalls) = 1
  /\ setup_pc = "returned"
  /\ srv_pc = "relay"

\* The child of this instance has exited.
ChildGone == MyChild # 0 /\ ~children[MyChild].alive

\* C17: the relay loop has ended only if the stream is closed and every
\* event sent before the close was handled; while it runs it can end if and
\* only if the stream is closed and drained, whatever events were handled,
\* an Error or a Terminated among them; and once the child has exited the
\* instance has that one child and start_server cannot run again.
C17_RelayEndsAtClose ==
  /\ srv_pc = "closed" => (closed /\ rx = <<>>)
  /\ srv_pc = "relay" => ((ENABLED RelayEnd) <=> (closed /\ rx = <<>>))
  /\ ChildGone =>
       /\ Cardinality(Mine) = 1
       /\ Len(launch.attempts) = 1
       /\ ~ENABLED StartServer

\* The loop went on after an Error and after Terminated, handled the line
\* that arrived behind them, and ended at the close.
C17_Witness ==
  /\ srv_pc = "closed"
  /\ ChildGone
  /\ handled = << Event("Error", <<7>>), Event("Terminated", <<1>>),
                  Event("Stdout", <<104>>) >>

\* The step of the update sequence an entry of the trace stands for: the
\* return of a call is one step whatever it returned.
StepOf(t) ==
  IF t.what \in {"Some", "None", "Err", "Ok"} THEN << t.op, "return" >>
  ELSE << t.op, t.what >>

\* No step of the update sequence was taken twice in this instance.
NoStepRepeated ==
  \A i, j \in 1..Len(upd_trace) :
    StepOf(upd_trace[i]) = StepOf(upd_trace[j]) => i = j

\* C18: if the sleep, the check, the install and every dialog return in the
\* end, an update task that has started always comes to its end, by
\* returning (no update, failed check, declined, failed install) or by
\* app.restart(); and on the way no step is taken twice.
C18_RunsToCompletion ==
  /\ []NoStepRepeated
  /\ (upd_pc = "sleeping") ~> UpdateEnded

\* The longest run of the sequence is over: app.restart() was called after
\* the ten steps from the sleep to the restart.
C18_Witness ==
  /\ upd_pc = "restarted"
  /\ Len(upd_trace) = 10
  /\ NoStepRepeated

\* C19, as stated: while a child of the running instance is alive, the
\* instance holds the handle of that child.
C19_HandleHeldWhileRunning ==
  host = "running" =>
    \A i \in Mine : children[i].alive => children[i].held

\* C20: every command start_server hands to spawn() has five arguments: the
\* entry script, then ui, --foreground, --port, 3333 in that order; the
\* script is server/cli.js in production and the development candidate in
\* development; in production the environment sets NODE_PATH to
\* server/node_modules and nothing else, in development it sets nothing.
C20_ArgsAndEnv ==
  \A i \in 1..Len(launch.attempts) :
    LET c == launch.attempts[i]
        production == launch.branches = <<"production">>
    IN  /\ launch.branches \in { <<"production">>, <<"development">> }
        /\ Len(c.args) = 5
        /\ c.args[1] = IF production THEN << "res", "server", "cli.js" >>
                       ELSE FirstExisting(fs)
        /\ SubSeq(c.args, 2, 5) = << <<"ui">>, <<"--foreground">>, <<"--port">>, <<"3333">> >>
        /\ c.env = IF production
                   THEN { [name |-> "NODE_PATH", value |-> << "res", "server", "node_modules" >>] }
                   ELSE {}
        /\ \A j \in Mine : children[j].cmd = c

\* A development child was spawned with cli.js of the working directory and
\* an environment this code did not touch.
C20_Witness ==
  /\ srv_pc = "relay"
  /\ launch.branches = <<"development">>
  /\ fs = { <<"cli.js">> }
  /\ Mine # {}
  /\ \A j \in Mine :
       /\ children[j].cmd.args =
            << <<"cli.js">>, <<"ui">>, <<"--foreground">>, <<"--port">>, <<"3333">> >>
       /\ children[j].cmd.env = {}

====
